---- MODULE Spec2Model ----
(***************************************************************************)
(* A model of flowparser's per-flow accumulator (Flow), its TCP rate       *)
(* estimator (TCPRateEstimator) and the TrackedFields accessors, as        *)
(* implemented in flows.cc.  One flow is constructed, fed packets through  *)
(* the four protocol receive paths, queried and finally closed.            *)
(***************************************************************************)
EXTENDS Integers, Naturals, Sequences, FiniteSets, TLC

\* flow:     the Flow object
\* lastOp:   the last call made on it, with its arguments and its outcome
\*           (op, err and the fields of that call)
\* ctor:     the arguments the flow was constructed with
\* sent:     the packets (host byte order values) of the successful receives
\* rx_calls: the number of receive calls made so far
\* ticks:    the number of UpdateAverages calls made so far
\* parser:   the FlowParser (its table, clock and locks), its threads and
\*           the flows it has handed to the callback
VARIABLES flow, lastOp, ctor, sent, rx_calls, ticks, parser

vars == <<flow, lastOp, ctor, sent, rx_calls, ticks, parser>>

(***************************************************************************)
(* Bounds of the model.  The machine widths are scaled down so that the    *)
(* wrap-around of uint64_t and uint32_t arithmetic is reachable: a         *)
(* uint64_t is Uint64Bits bits wide and a uint32_t is Uint32Bytes bytes.   *)
(***************************************************************************)
MaxPkts == 3

\* The receive calls made under SpecFields.
FieldsMaxPkts == 2

\* The UpdateAverages calls made under SpecAvg.
MaxTicks == 4

\* The HandlePkt and CollectFlows calls made under SpecParser.
MaxHandled == 2

MaxCollects == 2

Uint64Bits == 24

Uint32Bytes == 2

kUint64 == 2 ^ Uint64Bits

kUint64Max == kUint64 - 1

kUint32 == 256 ^ Uint32Bytes

kUint32Max == kUint32 - 1

kUint16 == 256 ^ 2

\* static_cast<int64_t>(x) of a uint64_t x
ToInt64(x) == IF x >= kUint64 \div 2 THEN x - kUint64 ELSE x

(***************************************************************************)
(* Byte order.  The headers hold multi-byte fields in network byte order;  *)
(* on a little-endian host ntohs/ntohl/htons/htonl reverse the bytes.      *)
(***************************************************************************)
RECURSIVE ByteSwap(_, _)
ByteSwap(x, nbytes) ==
  IF nbytes = 0 THEN 0
  ELSE (x % 256) * (256 ^ (nbytes - 1)) + ByteSwap(x \div 256, nbytes - 1)

ntohs(x) == ByteSwap(x, 2)

htons(x) == ByteSwap(x, 2)

ntohl(x) == ByteSwap(x, Uint32Bytes)

htonl(x) == ByteSwap(x, Uint32Bytes)

(***************************************************************************)
(* Doubles are modelled as exact non-negative rationals <<n, d>> in lowest *)
(* terms; <<1, 0>> is +infinity and <<0, 0>> is NaN (x / 0 of a double).   *)
(***************************************************************************)
RECURSIVE GCD(_, _)
GCD(a, b) == IF b = 0 THEN a ELSE GCD(b, a % b)

DNorm(n, d) ==
  IF d = 0 THEN (IF n = 0 THEN <<0, 0>> ELSE <<1, 0>>)
  ELSE LET g == GCD(n, d) IN <<n \div g, d \div g>>

DInt(n) == <<n, 1>>

DInf == <<1, 0>>

DNaN == <<0, 0>>

DMul(a, b) ==
  IF a[2] = 0 \/ b[2] = 0 THEN DNorm(a[1] * b[1], 0)
  ELSE LET g1 == GCD(a[1], b[2])
           g2 == GCD(b[1], a[2])
       IN DNorm((a[1] \div g1) * (b[1] \div g2), (a[2] \div g2) * (b[2] \div g1))

DAdd(a, b) ==
  IF a = DNaN \/ b = DNaN THEN DNaN
  ELSE IF a = DInf \/ b = DInf THEN DInf
  ELSE LET g == GCD(a[2], b[2])
       IN DNorm(a[1] * (b[2] \div g) + b[1] * (a[2] \div g), (a[2] \div g) * b[2])

\* static_cast<double>(a) / b for unsigned integers a, b
DDiv(a, b) == DNorm(a, b)

\* 1 - alpha for 0 < alpha <= 1
DOneMinus(a) == DNorm(a[2] - a[1], a[2])

(***************************************************************************)
(* Program constants.                                                      *)
(***************************************************************************)
kMillion == 1000000

kSizeUDP == 8

kSizeICMP == 8

FlowState == {"ACTIVE", "CLOSED"}

\* FlowConfig::HF_* : the bits of fields_to_track_, modelled as a set.
HeaderFields ==
  {"HF_TIMESTAMP", "HF_IP_LEN", "HF_IP_ID", "HF_IP_TTL", "HF_TCP_SEQ",
   "HF_TCP_ACK", "HF_TCP_WIN", "HF_TCP_FLAGS", "HF_PAYLOAD_SIZE",
   "HF_ICMP_TYPE", "HF_ICMP_CODE"}

\* sizeof the element type of each field series
ElemSize ==
  [timestamps_ |-> 8, ip_len_ |-> 2, ip_id_ |-> 2, ip_ttl_ |-> 1,
   payload_size_ |-> 2, tcp_flags_ |-> 1, tcp_seq_ |-> 4, tcp_ack_ |-> 4,
   tcp_win_ |-> 2, icmp_type_ |-> 1, icmp_code_ |-> 1]

(***************************************************************************)
(* TCPRateEstimator                                                        *)
(***************************************************************************)
TCPRateEstimator(first_rx) ==
  [last_seen_seq_ |-> kUint32Max,
   bytes_this_second_ |-> DInt(0),
   curr_bytes_per_second_ |-> DInt(0),
   curr_second_start_ |-> first_rx,
   out_of_order_ |-> FALSE]

\* The loop of flows.cc:57-60, run n times.
RECURSIVE DecaySkipped(_, _, _, _)
DecaySkipped(bps, n, alpha, rate) ==
  IF n = 0 THEN bps
  ELSE DecaySkipped(DAdd(DMul(DOneMinus(alpha), bps),
                         DMul(DMul(alpha, rate), DInt(kMillion))),
                    n - 1, alpha, rate)

\* TCPRateEstimator::UpdateEstimate, on the estimator e of flow f.
UpdateEstimate(f, e, seq, payload_size, timestamp) ==
  IF e.last_seen_seq_ = kUint32Max
  THEN [e EXCEPT !.bytes_this_second_ = DAdd(@, DInt(payload_size)),
                 !.last_seen_seq_ = (seq + payload_size) % kUint32]
  ELSE IF seq < e.last_seen_seq_
  THEN [e EXCEPT !.out_of_order_ = TRUE]
  ELSE
    LET bytes_delta == (seq - e.last_seen_seq_ + payload_size) % kUint32
        time_delta == (timestamp - f.last_rx_time_) % kUint64
        curr_second_end == (e.curr_second_start_ + kMillion) % kUint64
        alpha == f.tcp_estimator_ewma_alpha_
    IN IF timestamp <= curr_second_end
       THEN [e EXCEPT !.bytes_this_second_ = DAdd(@, DInt(bytes_delta)),
                      !.last_seen_seq_ = (seq + payload_size) % kUint32]
       ELSE
         LET rate == DDiv(bytes_delta, time_delta)
             seconds_skipped ==
               (((timestamp - curr_second_end) % kUint64) \div kMillion) % kUint32
             time_remaining_until_end_of_second ==
               (curr_second_end - f.last_rx_time_) % kUint64
             bytes_old == DAdd(e.bytes_this_second_,
                               DMul(rate, DInt(time_remaining_until_end_of_second)))
             bps1 == IF e.curr_second_start_ = f.first_rx_time_
                     THEN bytes_old
                     ELSE DAdd(DMul(DOneMinus(alpha), e.curr_bytes_per_second_),
                               DMul(alpha, bytes_old))
             bps2 == DecaySkipped(bps1, seconds_skipped, alpha, rate)
             time_into_new_second ==
               (time_delta - (seconds_skipped * kMillion)
                  + time_remaining_until_end_of_second) % kUint64
         IN [e EXCEPT !.bytes_this_second_ = DMul(rate, DInt(time_into_new_second)),
                      !.curr_bytes_per_second_ = bps2,
                      !.curr_second_start_ =
                         (curr_second_end + seconds_skipped * kMillion) % kUint64,
                      !.last_seen_seq_ = (seq + payload_size) % kUint32]

\* The loop of flows.cc:89-91, run n times.
RECURSIVE DecayOnly(_, _, _)
DecayOnly(bps, n, alpha) ==
  IF n = 0 THEN bps ELSE DecayOnly(DMul(DOneMinus(alpha), bps), n - 1, alpha)

\* GetBytesPerSecEstimate comparing with the first receive time.
GetBytesPerSecEstimateErr_FirstRx(f, timestamp) ==
  IF timestamp < f.first_rx_time_
  THEN "Cannot get a Bps estimate in the past"
  ELSE "none"

\* TCPRateEstimator::GetBytesPerSecEstimate: the error thrown, or "none".
GetBytesPerSecEstimateErr(f, timestamp) ==
  IF timestamp < f.last_rx_time_
  THEN "Cannot get a Bps estimate in the past"
  ELSE "none"

\* TCPRateEstimator::GetBytesPerSecEstimate: the value returned when no
\* error is thrown.
GetBytesPerSecEstimate(f, e, timestamp) ==
  LET curr_second_end == (e.curr_second_start_ + kMillion) % kUint64
      alpha == f.tcp_estimator_ewma_alpha_
      Bps == IF e.curr_second_start_ = f.first_rx_time_
             THEN e.bytes_this_second_
             ELSE e.curr_bytes_per_second_
  IN IF timestamp <= curr_second_end THEN Bps
     ELSE DecayOnly(Bps,
                    (((timestamp - curr_second_end) % kUint64) \div kMillion) % kUint32,
                    alpha)

(***************************************************************************)
(* Flow                                                                    *)
(***************************************************************************)
\* The constructor starting last_rx_time_ at the creation time.
Flow_LastRxIsFirstRx(protocol, fields_to_track, alpha, timestamp, timeout) ==
  [state_ |-> "ACTIVE",
   key_protocol_ |-> protocol,
   fields_to_track_ |-> fields_to_track,
   tcp_estimator_ewma_alpha_ |-> alpha,
   timeout_ |-> timeout,
   first_rx_time_ |-> timestamp,
   last_rx_time_ |-> timestamp,
   pkts_seen_ |-> 0,
   total_ip_len_seen_ |-> 0,
   total_payload_seen_ |-> 0,
   curr_size_bytes_ |-> 0,
   avg_pkts_per_period_ |-> DInt(0),
   avg_bytes_per_period_ |-> DInt(0),
   pkts_seen_at_update_ |-> 0,
   bytes_seen_at_update_ |-> 0,
   timestamps_ |-> <<>>,
   ip_len_ |-> <<>>,
   ip_id_ |-> <<>>,
   ip_ttl_ |-> <<>>,
   payload_size_ |-> <<>>,
   tcp_flags_ |-> <<>>,
   tcp_seq_ |-> <<>>,
   tcp_ack_ |-> <<>>,
   tcp_win_ |-> <<>>,
   icmp_type_ |-> <<>>,
   icmp_code_ |-> <<>>,
   tcp_rate_estimator_ |-> TCPRateEstimator(timestamp)]

\* Flow's constructor: an ACTIVE flow with empty series; last_rx_time_ is
\* the "never received" sentinel.
Flow(protocol, fields_to_track, alpha, timestamp, timeout) ==
  [state_ |-> "ACTIVE",
   key_protocol_ |-> protocol,
   fields_to_track_ |-> fields_to_track,
   tcp_estimator_ewma_alpha_ |-> alpha,
   timeout_ |-> timeout,
   first_rx_time_ |-> timestamp,
   last_rx_time_ |-> kUint64Max,
   pkts_seen_ |-> 0,
   total_ip_len_seen_ |-> 0,
   total_payload_seen_ |-> 0,
   curr_size_bytes_ |-> 0,
   avg_pkts_per_period_ |-> DInt(0),
   avg_bytes_per_period_ |-> DInt(0),
   pkts_seen_at_update_ |-> 0,
   bytes_seen_at_update_ |-> 0,
   timestamps_ |-> <<>>,
   ip_len_ |-> <<>>,
   ip_id_ |-> <<>>,
   ip_ttl_ |-> <<>>,
   payload_size_ |-> <<>>,
   tcp_flags_ |-> <<>>,
   tcp_seq_ |-> <<>>,
   tcp_ack_ |-> <<>>,
   tcp_win_ |-> <<>>,
   icmp_type_ |-> <<>>,
   icmp_code_ |-> <<>>,
   tcp_rate_estimator_ |-> TCPRateEstimator(timestamp)]

\* series.Append(value, &curr_size_bytes_)
SeriesAppend(f, series, value) ==
  [f EXCEPT ![series] = Append(@, value),
            !.curr_size_bytes_ = (@ + ElemSize[series]) % kUint64]

\* if (fields_to_track_ & bit) series.Append(value, &curr_size_bytes_)
AppendIfTracked(f, bit, series, value) ==
  IF bit \in f.fields_to_track_ THEN SeriesAppend(f, series, value) ELSE f

\* The outcome of a receive: the exception thrown ("none" if it returns)
\* and the flow as the call leaves it.
Outcome(err, f) == [err |-> err, flow |-> f]

\* Flow::IpRx adding the raw (network byte order) ip_len to the total.
IpRx_RawIpLen(f, ip_header, timestamp) ==
  IF f.state_ # "ACTIVE" THEN Outcome("Tried to modify passive flow", f)
  ELSE IF ip_header.ip_p # f.key_protocol_
  THEN Outcome("Wrong proto type in PacketRx", f)
  ELSE
    LET f1 == SeriesAppend(f, "timestamps_", timestamp)
        ip_len == ntohs(ip_header.ip_len)
        f2 == [f1 EXCEPT !.total_ip_len_seen_ = (@ + ip_header.ip_len) % kUint64]
        f3 == AppendIfTracked(f2, "HF_IP_LEN", "ip_len_", ip_len)
        f4 == AppendIfTracked(f3, "HF_IP_ID", "ip_id_", ntohs(ip_header.ip_id))
        f5 == AppendIfTracked(f4, "HF_IP_TTL", "ip_ttl_", ip_header.ip_ttl)
    IN Outcome("none", [f5 EXCEPT !.pkts_seen_ = (@ + 1) % kUint64])

\* Flow::IpRx without the protocol check.
IpRx_NoProtoCheck(f, ip_header, timestamp) ==
  IF f.state_ # "ACTIVE" THEN Outcome("Tried to modify passive flow", f)
  ELSE
    LET f1 == SeriesAppend(f, "timestamps_", timestamp)
        ip_len == ntohs(ip_header.ip_len)
        f2 == [f1 EXCEPT !.total_ip_len_seen_ = (@ + ip_len) % kUint64]
        f3 == AppendIfTracked(f2, "HF_IP_LEN", "ip_len_", ip_len)
        f4 == AppendIfTracked(f3, "HF_IP_ID", "ip_id_", ntohs(ip_header.ip_id))
        f5 == AppendIfTracked(f4, "HF_IP_TTL", "ip_ttl_", ip_header.ip_ttl)
    IN Outcome("none", [f5 EXCEPT !.pkts_seen_ = (@ + 1) % kUint64])

\* Flow::IpRx
IpRx(f, ip_header, timestamp) ==
  IF f.state_ # "ACTIVE" THEN Outcome("Tried to modify passive flow", f)
  ELSE IF ip_header.ip_p # f.key_protocol_
  THEN Outcome("Wrong proto type in PacketRx", f)
  ELSE
    LET f1 == SeriesAppend(f, "timestamps_", timestamp)
        ip_len == ntohs(ip_header.ip_len)
        f2 == [f1 EXCEPT !.total_ip_len_seen_ = (@ + ip_len) % kUint64]
        f3 == AppendIfTracked(f2, "HF_IP_LEN", "ip_len_", ip_len)
        f4 == AppendIfTracked(f3, "HF_IP_ID", "ip_id_", ntohs(ip_header.ip_id))
        f5 == AppendIfTracked(f4, "HF_IP_TTL", "ip_ttl_", ip_header.ip_ttl)
    IN Outcome("none", [f5 EXCEPT !.pkts_seen_ = (@ + 1) % kUint64])

\* Flow::TCPIpRx storing the sequence number in network byte order.
TCPIpRx_RawSeq(f, ip_header, tcp_header, timestamp) ==
  LET r == IpRx(f, ip_header, timestamp)
  IN IF r.err # "none" THEN r
     ELSE
       LET headers_size == ((ip_header.ip_hl + tcp_header.th_off) * 4) % kUint32
           payload_size == (ntohs(ip_header.ip_len) - headers_size) % kUint32
           seq == ntohl(tcp_header.th_seq)
           f1 == [r.flow EXCEPT !.total_payload_seen_ = (@ + payload_size) % kUint64]
           f2 == AppendIfTracked(f1, "HF_PAYLOAD_SIZE", "payload_size_", payload_size)
           f3 == AppendIfTracked(f2, "HF_TCP_FLAGS", "tcp_flags_", tcp_header.th_flags)
           f4 == AppendIfTracked(f3, "HF_TCP_SEQ", "tcp_seq_", tcp_header.th_seq)
           f5 == AppendIfTracked(f4, "HF_TCP_ACK", "tcp_ack_", ntohl(tcp_header.th_ack))
           f6 == AppendIfTracked(f5, "HF_TCP_WIN", "tcp_win_", ntohs(tcp_header.th_win))
           f7 == [f6 EXCEPT !.tcp_rate_estimator_ =
                     UpdateEstimate(f6, @, seq, payload_size, timestamp)]
       IN Outcome("none", [f7 EXCEPT !.last_rx_time_ = timestamp])

\* Flow::TCPIpRx
TCPIpRx(f, ip_header, tcp_header, timestamp) ==
  LET r == IpRx(f, ip_header, timestamp)
  IN IF r.err # "none" THEN r
     ELSE
       LET headers_size == ((ip_header.ip_hl + tcp_header.th_off) * 4) % kUint32
           payload_size == (ntohs(ip_header.ip_len) - headers_size) % kUint32
           seq == ntohl(tcp_header.th_seq)
           f1 == [r.flow EXCEPT !.total_payload_seen_ = (@ + payload_size) % kUint64]
           f2 == AppendIfTracked(f1, "HF_PAYLOAD_SIZE", "payload_size_", payload_size)
           f3 == AppendIfTracked(f2, "HF_TCP_FLAGS", "tcp_flags_", tcp_header.th_flags)
           f4 == AppendIfTracked(f3, "HF_TCP_SEQ", "tcp_seq_", seq)
           f5 == AppendIfTracked(f4, "HF_TCP_ACK", "tcp_ack_", ntohl(tcp_header.th_ack))
           f6 == AppendIfTracked(f5, "HF_TCP_WIN", "tcp_win_", ntohs(tcp_header.th_win))
           f7 == [f6 EXCEPT !.tcp_rate_estimator_ =
                     UpdateEstimate(f6, @, seq, payload_size, timestamp)]
       IN Outcome("none", [f7 EXCEPT !.last_rx_time_ = timestamp])

\* Flow::UDPIpRx
UDPIpRx(f, ip_header, udp_header, timestamp) ==
  LET headers_size == (ip_header.ip_hl * 4 - kSizeUDP) % kUint32
      payload_size == (ntohs(ip_header.ip_len) - headers_size) % kUint32
      f1 == [f EXCEPT !.total_payload_seen_ = (@ + payload_size) % kUint64]
      f2 == AppendIfTracked(f1, "HF_PAYLOAD_SIZE", "payload_size_", payload_size)
      r == IpRx(f2, ip_header, timestamp)
  IN IF r.err # "none" THEN r
     ELSE Outcome("none", [r.flow EXCEPT !.last_rx_time_ = timestamp])

\* Flow::ICMPIpRx that advances last_rx_time_ only on the first packet.
ICMPIpRx_FirstRxOnly(f, ip_header, icmp_header, timestamp) ==
  LET r == IpRx(f, ip_header, timestamp)
  IN IF r.err # "none" THEN r
     ELSE
       LET headers_size == (ip_header.ip_hl * 4 - kSizeICMP) % kUint32
           payload_size == (ntohs(ip_header.ip_len) - headers_size) % kUint32
           f1 == [r.flow EXCEPT !.total_payload_seen_ = (@ + payload_size) % kUint64]
           f2 == AppendIfTracked(f1, "HF_PAYLOAD_SIZE", "payload_size_", payload_size)
           f3 == AppendIfTracked(f2, "HF_ICMP_TYPE", "icmp_type_", icmp_header.icmp_type)
           f4 == AppendIfTracked(f3, "HF_ICMP_CODE", "icmp_code_", icmp_header.icmp_code)
       IN Outcome("none",
                  IF f.last_rx_time_ = kUint64Max
                  THEN [f4 EXCEPT !.last_rx_time_ = timestamp]
                  ELSE f4)

\* Flow::ICMPIpRx
ICMPIpRx(f, ip_header, icmp_header, timestamp) ==
  LET r == IpRx(f, ip_header, timestamp)
  IN IF r.err # "none" THEN r
     ELSE
       LET headers_size == (ip_header.ip_hl * 4 - kSizeICMP) % kUint32
           payload_size == (ntohs(ip_header.ip_len) - headers_size) % kUint32
           f1 == [r.flow EXCEPT !.total_payload_seen_ = (@ + payload_size) % kUint64]
           f2 == AppendIfTracked(f1, "HF_PAYLOAD_SIZE", "payload_size_", payload_size)
           f3 == AppendIfTracked(f2, "HF_ICMP_TYPE", "icmp_type_", icmp_header.icmp_type)
           f4 == AppendIfTracked(f3, "HF_ICMP_CODE", "icmp_code_", icmp_header.icmp_code)
       IN Outcome("none", [f4 EXCEPT !.last_rx_time_ = timestamp])

\* Flow::UnknownIpRx that does not advance last_rx_time_.
UnknownIpRx_NoLastRx(f, ip_header, timestamp) ==
  LET r == IpRx(f, ip_header, timestamp)
  IN IF r.err # "none" THEN r
     ELSE
       LET payload_size == (ntohs(ip_header.ip_len) - ip_header.ip_hl * 4) % kUint32
           f1 == [r.flow EXCEPT !.total_payload_seen_ = (@ + payload_size) % kUint64]
           f2 == AppendIfTracked(f1, "HF_PAYLOAD_SIZE", "payload_size_", payload_size)
       IN Outcome("none", f2)

\* Flow::UnknownIpRx
UnknownIpRx(f, ip_header, timestamp) ==
  LET r == IpRx(f, ip_header, timestamp)
  IN IF r.err # "none" THEN r
     ELSE
       LET payload_size == (ntohs(ip_header.ip_len) - ip_header.ip_hl * 4) % kUint32
           f1 == [r.flow EXCEPT !.total_payload_seen_ = (@ + payload_size) % kUint64]
           f2 == AppendIfTracked(f1, "HF_PAYLOAD_SIZE", "payload_size_", payload_size)
       IN Outcome("none", [f2 EXCEPT !.last_rx_time_ = timestamp])

\* *bytes += (curr_size_bytes_ - bytes_before), starting from *bytes = 0
BytesReported(before, after) ==
  (after.curr_size_bytes_ - before.curr_size_bytes_) % kUint64

\* Flow::TimeLeft: last_rx_time_ + timeout_ - time_now in uint64_t,
\* returned as an int64_t.
TimeLeft(f, time_now) ==
  ToInt64((f.last_rx_time_ + f.timeout_ - time_now) % kUint64)

\* Flow::GetInfo
GetInfo(f) ==
  [first_rx |-> f.first_rx_time_,
   last_rx |-> f.last_rx_time_,
   size_pkts |-> f.pkts_seen_,
   size_bytes |-> f.total_ip_len_seen_,
   avg_pkts_per_period |-> f.avg_pkts_per_period_,
   avg_bytes_per_period |-> f.avg_bytes_per_period_]

\* (1 - alpha) * avg + alpha * count
Decayed(alpha, avg, count) ==
  DAdd(DMul(DOneMinus(alpha), avg), DMul(alpha, DInt(count)))

\* UpdateAverages folding the totals, not the counts of the period.
UpdateAverages_Totals(f) ==
  IF f.state_ # "ACTIVE" THEN Outcome("Tried to modify passive flow", f)
  ELSE
    LET alpha == f.tcp_estimator_ewma_alpha_
    IN Outcome("none",
         [f EXCEPT
            !.avg_pkts_per_period_ = Decayed(alpha, @, f.pkts_seen_),
            !.avg_bytes_per_period_ = Decayed(alpha, @, f.total_ip_len_seen_),
            !.pkts_seen_at_update_ = f.pkts_seen_,
            !.bytes_seen_at_update_ = f.total_ip_len_seen_])

\* Flow::UpdateAverages: the packets and bytes received since the previous
\* call (the totals now, less the totals then) are folded into the decayed
\* averages, and the period starts again.
UpdateAverages(f) ==
  IF f.state_ # "ACTIVE" THEN Outcome("Tried to modify passive flow", f)
  ELSE
    LET alpha == f.tcp_estimator_ewma_alpha_
        pkts == (f.pkts_seen_ - f.pkts_seen_at_update_) % kUint64
        bytes == (f.total_ip_len_seen_ - f.bytes_seen_at_update_) % kUint64
    IN Outcome("none",
         [f EXCEPT
            !.avg_pkts_per_period_ = Decayed(alpha, @, pkts),
            !.avg_bytes_per_period_ = Decayed(alpha, @, bytes),
            !.pkts_seen_at_update_ = f.pkts_seen_,
            !.bytes_seen_at_update_ = f.total_ip_len_seen_])

\* The Parser's eviction of the flow: it becomes CLOSED.
Deactivate(f) == [f EXCEPT !.state_ = "CLOSED"]

(***************************************************************************)
(* TrackedFields and the flow iterator                                     *)
(***************************************************************************)
\* The value of the i-th element of a series, 0 when the series has none.
SeriesAt(f, series, i) == IF i <= Len(f[series]) THEN f[series][i] ELSE 0

\* The TrackedFields of the i-th received packet of flow f.
TrackedFieldsAt(f, i) ==
  [fields_present_bitmap_ |-> f.fields_to_track_,
   timestamp_ |-> SeriesAt(f, "timestamps_", i),
   ip_len_ |-> SeriesAt(f, "ip_len_", i),
   ip_id_ |-> SeriesAt(f, "ip_id_", i),
   ip_ttl_ |-> SeriesAt(f, "ip_ttl_", i),
   tcp_seq_ |-> SeriesAt(f, "tcp_seq_", i),
   tcp_ack_ |-> SeriesAt(f, "tcp_ack_", i),
   tcp_win_ |-> SeriesAt(f, "tcp_win_", i),
   tcp_flags_ |-> SeriesAt(f, "tcp_flags_", i),
   payload_size_ |-> SeriesAt(f, "payload_size_", i),
   icmp_type_ |-> SeriesAt(f, "icmp_type_", i),
   icmp_code_ |-> SeriesAt(f, "icmp_code_", i)]

\* The result of an accessor: the exception thrown ("none" if it returns)
\* and the value returned.
Thrown(msg) == [err |-> msg, val |-> 0]

Returned(v) == [err |-> "none", val |-> v]

TrackedFields_timestamp(tf) ==
  IF ~("HF_TIMESTAMP" \in tf.fields_present_bitmap_)
  THEN Thrown("timestamp not tracked")
  ELSE Returned(tf.timestamp_)

TrackedFields_ip_len(tf) ==
  IF ~("HF_IP_LEN" \in tf.fields_present_bitmap_)
  THEN Thrown("ip_len not tracked")
  ELSE Returned(tf.ip_len_ % kUint16)

TrackedFields_ip_id(tf) ==
  IF ~("HF_IP_ID" \in tf.fields_present_bitmap_)
  THEN Thrown("ip_id not tracked")
  ELSE Returned(tf.ip_id_ % kUint16)

\* TrackedFields::ip_ttl testing the HF_IP_ID bit.
TrackedFields_ip_ttl_IdBit(tf) ==
  IF ~("HF_IP_ID" \in tf.fields_present_bitmap_)
  THEN Thrown("ip_id not tracked")
  ELSE Returned(tf.ip_ttl_ % 256)

TrackedFields_ip_ttl(tf) ==
  IF ~("HF_IP_TTL" \in tf.fields_present_bitmap_)
  THEN Thrown("ip_id not tracked")
  ELSE Returned(tf.ip_ttl_ % 256)

TrackedFields_tcp_seq(tf) ==
  IF ~("HF_TCP_SEQ" \in tf.fields_present_bitmap_)
  THEN Thrown("tcp_seq not tracked")
  ELSE Returned(tf.tcp_seq_ % kUint32)

TrackedFields_tcp_ack(tf) ==
  IF ~("HF_TCP_ACK" \in tf.fields_present_bitmap_)
  THEN Thrown("tcp_ack not tracked")
  ELSE Returned(tf.tcp_ack_ % kUint32)

TrackedFields_tcp_win(tf) ==
  IF ~("HF_TCP_WIN" \in tf.fields_present_bitmap_)
  THEN Thrown("tcp_win not tracked")
  ELSE Returned(tf.tcp_win_ % kUint16)

TrackedFields_tcp_flags(tf) ==
  IF ~("HF_TCP_FLAGS" \in tf.fields_present_bitmap_)
  THEN Thrown("tcp_flags not tracked")
  ELSE Returned(tf.tcp_flags_ % 256)

TrackedFields_payload_size(tf) ==
  IF ~("HF_PAYLOAD_SIZE" \in tf.fields_present_bitmap_)
  THEN Thrown("payload size not tracked")
  ELSE Returned(tf.payload_size_ % kUint16)

TrackedFields_icmp_code(tf) ==
  IF ~("HF_ICMP_CODE" \in tf.fields_present_bitmap_)
  THEN Thrown("icmp_code size not tracked")
  ELSE Returned(tf.icmp_code_ % 256)

TrackedFields_icmp_type(tf) ==
  IF ~("HF_ICMP_TYPE" \in tf.fields_present_bitmap_)
  THEN Thrown("icmp_type size not tracked")
  ELSE Returned(tf.icmp_type_ % 256)

\* The field kinds, each with the accessor that reads it.
FieldKinds ==
  {"timestamp", "ip_len", "ip_id", "ip_ttl", "tcp_seq", "tcp_ack", "tcp_win",
   "tcp_flags", "payload_size", "icmp_type", "icmp_code"}

Accessor(kind, tf) ==
  CASE kind = "timestamp" -> TrackedFields_timestamp(tf)
    [] kind = "ip_len" -> TrackedFields_ip_len(tf)
    [] kind = "ip_id" -> TrackedFields_ip_id(tf)
    [] kind = "ip_ttl" -> TrackedFields_ip_ttl(tf)
    [] kind = "tcp_seq" -> TrackedFields_tcp_seq(tf)
    [] kind = "tcp_ack" -> TrackedFields_tcp_ack(tf)
    [] kind = "tcp_win" -> TrackedFields_tcp_win(tf)
    [] kind = "tcp_flags" -> TrackedFields_tcp_flags(tf)
    [] kind = "payload_size" -> TrackedFields_payload_size(tf)
    [] kind = "icmp_type" -> TrackedFields_icmp_type(tf)
    [] kind = "icmp_code" -> TrackedFields_icmp_code(tf)

\* TCPFlowIterator::Next on the i-th packet: the IPHeader and TCPHeader it
\* fills in, or the first exception an accessor throws.
TCPFlowIteratorNext(f, i) ==
  LET tf == TrackedFieldsAt(f, i)
      reads == <<TrackedFields_timestamp(tf), TrackedFields_ip_id(tf),
                 TrackedFields_ip_len(tf), TrackedFields_ip_ttl(tf),
                 TrackedFields_tcp_win(tf), TrackedFields_tcp_seq(tf),
                 TrackedFields_tcp_ack(tf), TrackedFields_tcp_flags(tf)>>
      bad == {k \in 1..Len(reads) : reads[k].err # "none"}
  IN IF bad # {}
     THEN Thrown(reads[CHOOSE k \in bad : \A j \in bad : k <= j].err)
     ELSE Returned([ip |-> [timestamp |-> reads[1].val, id |-> reads[2].val,
                            length |-> reads[3].val, ttl |-> reads[4].val],
                    tcp |-> [win |-> reads[5].val, seq |-> reads[6].val,
                             ack |-> reads[7].val, flags |-> reads[8].val]])

\* while (it.Next(&ip, &tcp)): every record of the flow, in order, or the
\* first exception.
IterateTCPFlow(f) ==
  LET n == Len(f.timestamps_)
      recs == [i \in 1..n |-> TCPFlowIteratorNext(f, i)]
      bad == {i \in 1..n : recs[i].err # "none"}
  IN IF bad # {}
     THEN Thrown(recs[CHOOSE i \in bad : \A j \in bad : i <= j].err)
     ELSE Returned([i \in 1..n |-> recs[i].val])

(***************************************************************************)
(* Inputs: the packets of the generator and the arguments of the calls.    *)
(***************************************************************************)
\* IPPROTO_ICMP, IPPROTO_TCP, IPPROTO_UDP and one other protocol (GRE)
Protocols == {1, 6, 17, 47}

AllFields == HeaderFields

Masks == {AllFields, {}, {"HF_IP_LEN", "HF_TCP_SEQ", "HF_PAYLOAD_SIZE"}}

FirstRx == {10, 10000}

Timeouts == {1000}

Alphas == {<<1, 2>>}

\* The gaps between one receive timestamp and the next (non-decreasing).
TimeSteps == {0, 1500000}

\* Host byte order values of the IP headers the generator makes.
GenIp ==
  {[len |-> 40, id |-> 7, ttl |-> 64, hl |-> 5],
   [len |-> 300, id |-> 513, ttl |-> 128, hl |-> 5]}

GenTcp ==
  {[seq |-> 1000, ack |-> 258, win |-> 512, flags |-> 2, off |-> 5],
   [seq |-> 500, ack |-> 1, win |-> 1027, flags |-> 16, off |-> 5]}

GenUdp == {[sport |-> 53, dport |-> 4660]}

GenIcmp == {[type |-> 8, code |-> 3]}

\* A protocol number other than p
WrongProtocol(p) == IF p = 6 THEN 17 ELSE 6

\* The pcap::SniffIp of host values h with protocol p (network byte order).
GenerateIpHeader(h, p) ==
  [ip_hl |-> h.hl, ip_len |-> htons(h.len), ip_id |-> htons(h.id),
   ip_ttl |-> h.ttl, ip_p |-> p]

\* The pcap::SniffTcp of host values t (network byte order).
GenerateTCPHeader(t) ==
  [th_seq |-> htonl(t.seq), th_ack |-> htonl(t.ack), th_win |-> htons(t.win),
   th_flags |-> t.flags, th_off |-> t.off]

GenerateUDPHeader(u) == [uh_sport |-> htons(u.sport), uh_dport |-> htons(u.dport)]

GenerateICMPHeader(c) == [icmp_type |-> c.type, icmp_code |-> c.code]

\* Whether the flow has received a packet.
Received(f) == f.last_rx_time_ # kUint64Max

\* The timestamps the next packet may carry.
RxTimes(f) ==
  LET base == IF Received(f) THEN f.last_rx_time_ ELSE f.first_rx_time_
  IN {base + d : d \in TimeSteps}

\* The times TimeLeft may be asked at: around the last receive (the
\* creation, before any) and around the timeout after it.
QueryTimes(f) ==
  LET base == IF Received(f) THEN f.last_rx_time_ ELSE f.first_rx_time_
  IN {t \in {base - 1, base, base + f.timeout_, base + f.timeout_ + 1} : t >= 0}

\* The times a rate estimate may be asked at.
EstimateTimes(f) ==
  LET base == IF Received(f) THEN f.last_rx_time_ ELSE f.first_rx_time_
  IN {t \in {base - 1, base, base + 2500000} : t >= 0}

RxOps == {"TCPIpRx", "UDPIpRx", "ICMPIpRx", "UnknownIpRx"}

\* The value of parser where no FlowParser has been constructed.
NoParser == [constructed |-> FALSE]

(***************************************************************************)
(* The state after construction.                                           *)
(***************************************************************************)
Init ==
  /\ \E p \in Protocols, m \in Masks, a \in Alphas, t \in FirstRx, to \in Timeouts :
       /\ flow = Flow(p, m, a, t, to)
       /\ ctor = [protocol |-> p, fields_to_track |-> m, timestamp |-> t,
                  timeout |-> to]
  /\ lastOp = [op |-> "Flow", err |-> "none"]
  /\ sent = <<>>
  /\ rx_calls = 0
  /\ ticks = 0
  /\ parser = NoParser

(***************************************************************************)
(* The operations.                                                         *)
(***************************************************************************)
\* A receive call `op` on packet pkt, whose outcome is r.
Receive(op, pkt, r) ==
  /\ rx_calls < MaxPkts
  /\ flow' = r.flow
  /\ lastOp' = [op |-> op, err |-> r.err, pkt |-> pkt,
                bytes |-> IF r.err = "none" THEN BytesReported(flow, r.flow) ELSE 0]
  /\ sent' = IF r.err = "none" THEN Append(sent, pkt) ELSE sent
  /\ rx_calls' = rx_calls + 1
  /\ UNCHANGED <<ctor, ticks, parser>>

Packet(op, h, p, tr, ts) ==
  [op |-> op, ip |-> h, ip_p |-> p, tr |-> tr, timestamp |-> ts]

TCPPacketRx ==
  /\ flow.key_protocol_ = 6
  /\ \E h \in GenIp, t \in GenTcp, ts \in RxTimes(flow),
        p \in {flow.key_protocol_, WrongProtocol(flow.key_protocol_)} :
       Receive("TCPIpRx", Packet("TCPIpRx", h, p, t, ts),
               TCPIpRx(flow, GenerateIpHeader(h, p), GenerateTCPHeader(t), ts))

UDPPacketRx ==
  /\ flow.key_protocol_ = 17
  /\ \E h \in GenIp, u \in GenUdp, ts \in RxTimes(flow),
        p \in {flow.key_protocol_, WrongProtocol(flow.key_protocol_)} :
       Receive("UDPIpRx", Packet("UDPIpRx", h, p, u, ts),
               UDPIpRx(flow, GenerateIpHeader(h, p), GenerateUDPHeader(u), ts))

ICMPPacketRx ==
  /\ flow.key_protocol_ = 1
  /\ \E h \in GenIp, c \in GenIcmp, ts \in RxTimes(flow),
        p \in {flow.key_protocol_, WrongProtocol(flow.key_protocol_)} :
       Receive("ICMPIpRx", Packet("ICMPIpRx", h, p, c, ts),
               ICMPIpRx(flow, GenerateIpHeader(h, p), GenerateICMPHeader(c), ts))

UnknownPacketRx ==
  /\ flow.key_protocol_ \notin {1, 6, 17}
  /\ \E h \in GenIp, ts \in RxTimes(flow),
        p \in {flow.key_protocol_, WrongProtocol(flow.key_protocol_)} :
       Receive("UnknownIpRx", Packet("UnknownIpRx", h, p, <<>>, ts),
               UnknownIpRx(flow, GenerateIpHeader(h, p), ts))

\* The Parser evicts the flow.
Close ==
  /\ flow.state_ = "ACTIVE"
  /\ flow' = Deactivate(flow)
  /\ lastOp' = [op |-> "Deactivate", err |-> "none"]
  /\ UNCHANGED <<ctor, sent, rx_calls, ticks, parser>>

\* A query: it reads the flow and leaves it as it is; call is the record of
\* the call and its outcome.
Query(call) ==
  /\ lastOp' = call
  /\ UNCHANGED <<flow, ctor, sent, rx_calls, ticks, parser>>

CallTimeLeft ==
  \E now \in QueryTimes(flow) :
    Query([op |-> "TimeLeft", err |-> "none", now |-> now,
           left |-> TimeLeft(flow, now)])

CallGetInfo ==
  /\ flow.state_ \in FlowState
  /\ Query([op |-> "GetInfo", err |-> "none", info |-> GetInfo(flow)])

\* TCPFlow::EstimateBps
EstimateBps(f, now) ==
  IF GetBytesPerSecEstimateErr(f, now) # "none"
  THEN [err |-> GetBytesPerSecEstimateErr(f, now), val |-> DInt(0)]
  ELSE Returned(GetBytesPerSecEstimate(f, f.tcp_rate_estimator_, now))

CallEstimateBps ==
  /\ flow.key_protocol_ = 6
  /\ \E now \in EstimateTimes(flow) :
       Query([op |-> "EstimateBps", err |-> EstimateBps(flow, now).err,
              now |-> now, bps |-> EstimateBps(flow, now).val])

CallIterate ==
  /\ flow.key_protocol_ = 6
  /\ Query([op |-> "Iterate", err |-> IterateTCPFlow(flow).err,
            records |-> IF IterateTCPFlow(flow).err = "none"
                        THEN IterateTCPFlow(flow).val ELSE <<>>])

Next ==
  \/ TCPPacketRx
  \/ UDPPacketRx
  \/ ICMPPacketRx
  \/ UnknownPacketRx
  \/ Close
  \/ CallTimeLeft
  \/ CallGetInfo
  \/ CallEstimateBps
  \/ CallIterate

Spec == Init /\ [][Next]_vars

(***************************************************************************)
(* A second specification, for the accessors: a TCP or ICMP flow with any  *)
(* tracking mask receives packets and has single fields of its records     *)
(* read.                                                                   *)
(***************************************************************************)
FieldsProtocols == {1, 6}

FieldsIp == {[len |-> 300, id |-> 513, ttl |-> 128, hl |-> 5]}

FieldsTcp == {[seq |-> 1000, ack |-> 258, win |-> 512, flags |-> 2, off |-> 5]}

FieldsTimeSteps == {5}

InitFields ==
  /\ \E p \in FieldsProtocols, m \in SUBSET HeaderFields, a \in Alphas,
        t \in FirstRx, to \in Timeouts :
       /\ t = 10000
       /\ flow = Flow(p, m, a, t, to)
       /\ ctor = [protocol |-> p, fields_to_track |-> m, timestamp |-> t,
                  timeout |-> to]
  /\ lastOp = [op |-> "Flow", err |-> "none"]
  /\ sent = <<>>
  /\ rx_calls = 0
  /\ ticks = 0
  /\ parser = NoParser

FieldsTCPPacketRx ==
  /\ flow.key_protocol_ = 6
  /\ rx_calls < FieldsMaxPkts
  /\ \E h \in FieldsIp, t \in FieldsTcp, d \in FieldsTimeSteps :
       LET ts == (IF Received(flow) THEN flow.last_rx_time_
                  ELSE flow.first_rx_time_) + d
       IN Receive("TCPIpRx", Packet("TCPIpRx", h, 6, t, ts),
                  TCPIpRx(flow, GenerateIpHeader(h, 6), GenerateTCPHeader(t), ts))

FieldsICMPPacketRx ==
  /\ flow.key_protocol_ = 1
  /\ rx_calls < FieldsMaxPkts
  /\ \E h \in FieldsIp, c \in GenIcmp, d \in FieldsTimeSteps :
       LET ts == (IF Received(flow) THEN flow.last_rx_time_
                  ELSE flow.first_rx_time_) + d
       IN Receive("ICMPIpRx", Packet("ICMPIpRx", h, 1, c, ts),
                  ICMPIpRx(flow, GenerateIpHeader(h, 1), GenerateICMPHeader(c), ts))

\* One accessor called on the TrackedFields of the i-th packet.
ReadField ==
  \E i \in 1..Len(flow.timestamps_), kind \in FieldKinds :
    Query([op |-> "ReadField", err |-> Accessor(kind, TrackedFieldsAt(flow, i)).err,
           kind |-> kind, index |-> i, tf |-> TrackedFieldsAt(flow, i),
           val |-> Accessor(kind, TrackedFieldsAt(flow, i)).val])

NextFields ==
  \/ FieldsTCPPacketRx
  \/ FieldsICMPPacketRx
  \/ ReadField

SpecFields == InitFields /\ [][NextFields]_vars

(***************************************************************************)
(* A third specification, for the decayed averages: a TCP flow receives    *)
(* packets, has its averages updated by the scheduler's ticks, and is      *)
(* closed.                                                                 *)
(***************************************************************************)
AvgAlphas == {<<1, 2>>, <<1, 4>>}

AvgTcp == {[seq |-> 1000, ack |-> 258, win |-> 512, flags |-> 2, off |-> 5]}

InitAvg ==
  /\ \E a \in AvgAlphas, t \in FirstRx, to \in Timeouts :
       /\ flow = Flow(6, {}, a, t, to)
       /\ ctor = [protocol |-> 6, fields_to_track |-> {}, timestamp |-> t,
                  timeout |-> to]
  /\ lastOp = [op |-> "Flow", err |-> "none"]
  /\ sent = <<>>
  /\ rx_calls = 0
  /\ ticks = 0
  /\ parser = NoParser

AvgPacketRx ==
  /\ flow.key_protocol_ = 6
  /\ \E h \in GenIp, t \in AvgTcp :
       LET ts == IF Received(flow) THEN flow.last_rx_time_ ELSE flow.first_rx_time_
       IN Receive("TCPIpRx", Packet("TCPIpRx", h, 6, t, ts),
                  TCPIpRx(flow, GenerateIpHeader(h, 6), GenerateTCPHeader(t), ts))

\* One tick of the scheduler: the call, the averages before it and the
\* packets received since the tick before.
CallUpdateAverages ==
  /\ ticks < MaxTicks
  /\ flow' = UpdateAverages(flow).flow
  /\ lastOp' = [op |-> "UpdateAverages", err |-> UpdateAverages(flow).err,
                avg_before |-> [pkts |-> flow.avg_pkts_per_period_,
                                bytes |-> flow.avg_bytes_per_period_],
                period_pkts |-> (flow.pkts_seen_ - flow.pkts_seen_at_update_) % kUint64]
  /\ ticks' = ticks + 1
  /\ UNCHANGED <<ctor, sent, rx_calls, parser>>

NextAvg ==
  \/ AvgPacketRx
  \/ CallUpdateAverages
  \/ Close

SpecAvg == InitAvg /\ [][NextAvg]_vars

(***************************************************************************)
(* A fourth specification, for the rate estimator: a TCP flow created by   *)
(* its first packet receives segments in and out of order, within and      *)
(* beyond the current second, and has its rate read.                       *)
(***************************************************************************)
\* The segments: their sequence numbers, at the end of the sequence space,
\* and their payloads (0 or 260 bytes under 40 bytes of headers).  None
\* wraps the sequence space.
EstSegments ==
  {[seq |-> kUint32Max - 520, len |-> 40], [seq |-> kUint32Max - 520, len |-> 300],
   [seq |-> kUint32Max - 260, len |-> 40], [seq |-> kUint32Max - 260, len |-> 300],
   [seq |-> kUint32Max, len |-> 40]}

EstIp(g) == [len |-> g.len, id |-> 7, ttl |-> 64, hl |-> 5]

EstTcp(g) == [seq |-> g.seq, ack |-> 1, win |-> 512, flags |-> 16, off |-> 5]

\* The gaps between one receive timestamp and the next (non-decreasing).
EstTimeSteps == {0, 500000, 1500000}

InitEst ==
  /\ \E a \in Alphas, t \in FirstRx, to \in Timeouts :
       /\ t = 10000
       /\ flow = Flow(6, {}, a, t, to)
       /\ ctor = [protocol |-> 6, fields_to_track |-> {}, timestamp |-> t,
                  timeout |-> to]
  /\ lastOp = [op |-> "Flow", err |-> "none"]
  /\ sent = <<>>
  /\ rx_calls = 0
  /\ ticks = 0
  /\ parser = NoParser

\* The first packet carries the timestamp the flow was created with.
EstPacketRx ==
  /\ flow.key_protocol_ = 6
  /\ \E g \in EstSegments, d \in EstTimeSteps :
       LET ts == IF Received(flow) THEN flow.last_rx_time_ + d
                 ELSE flow.first_rx_time_
       IN Receive("TCPIpRx", Packet("TCPIpRx", EstIp(g), 6, EstTcp(g), ts),
                  TCPIpRx(flow, GenerateIpHeader(EstIp(g), 6),
                          GenerateTCPHeader(EstTcp(g)), ts))

NextEst ==
  \/ EstPacketRx
  \/ CallEstimateBps

SpecEst == InitEst /\ [][NextEst]_vars

(***************************************************************************)
(* A fifth specification, for the FlowParser: handler threads call         *)
(* HandlePkt and a timer thread calls CollectFlows.  A flow object is the  *)
(* index of its record in parser.flows; the table maps a key to a flow     *)
(* object, or to 0.                                                        *)
(*   HandlePkt:     under flows_table_mutex_, look the key up (creating    *)
(*                  the flow on a miss) and advance last_rx_; then lock    *)
(*                  the flow's mutex, receive, unlock.                     *)
(*   CollectFlows:  lock flows_table_mutex_; for each entry lock the       *)
(*                  flow's mutex and, if the flow has expired, erase the   *)
(*                  entry and close the flow; unlock flows_table_mutex_;   *)
(*                  hand each evicted flow to callback_.                   *)
(***************************************************************************)
Keys == {1, 2}

Handlers == {1, 2}

ParserStart == 10000

ParserTimeSteps == {0, 1000}

ParserIp == [len |-> 300, id |-> 7, ttl |-> 64, hl |-> 5]

ParserTcp == [seq |-> 1000, ack |-> 1, win |-> 512, flags |-> 16, off |-> 5]

\* FlowParser's constructor
FlowParser(timeout) ==
  [constructed |-> TRUE,
   flow_timeout_ |-> timeout,
   last_rx_ |-> kUint64Max,
   flows_table_ |-> [k \in Keys |-> 0],
   flows_table_mutex_ |-> "free",
   \* the flow objects ever created, the key and the mutex of each
   flows |-> <<>>,
   flow_key |-> <<>>,
   flow_mutex |-> <<>>,
   handlers |-> [h \in Handlers |->
                  [pc |-> "idle", key |-> 0, obj |-> 0, timestamp |-> 0]],
   collector |-> [pc |-> "idle", begin_keys |-> {}, todo |-> {}, evicted |-> <<>>],
   \* the flow objects erased from the table, those handed to callback_ (in
   \* order), and those the parser accessed after it had erased them
   removed |-> {},
   delivered |-> <<>>,
   accessed_after_removal |-> {},
   handled |-> 0,
   collects |-> 0]

\* A flow's mutex taken whoever holds it.
FlowMutexFree_Ignored(p, id) == p.flow_mutex[id] \in {0} \cup Handlers

\* The flow's mutex is not held (0: free, h: held by handler h).
FlowMutexFree(p, id) == p.flow_mutex[id] = 0

\* Eviction of the flows with no time left only when it is negative.
Expired_Negative(f, now) == TimeLeft(f, now) < 0

\* Whether CollectFlows evicts flow f at the parser's time now.
Expired(f, now) == TimeLeft(f, now) <= 0

\* An eviction that leaves the entry in the table.
Erase_Kept(table, k) == table

\* flows_table_.erase(k)
Erase(table, k) == [table EXCEPT ![k] = 0]

InitParser ==
  /\ \E a \in Alphas, t \in FirstRx, to \in Timeouts :
       /\ t = ParserStart
       /\ flow = Flow(6, {}, a, t, to)
       /\ ctor = [protocol |-> 6, fields_to_track |-> {}, timestamp |-> t,
                  timeout |-> to]
       /\ parser = FlowParser(to)
  /\ lastOp = [op |-> "FlowParser", err |-> "none"]
  /\ sent = <<>>
  /\ rx_calls = 0
  /\ ticks = 0

\* A step of the parser: the call, or part of a call, it belongs to.
ParserStep(p, op, err, obj) ==
  /\ parser' = p
  /\ lastOp' = [op |-> op, err |-> err, obj |-> obj]
  /\ UNCHANGED <<flow, ctor, sent, rx_calls, ticks>>

\* HandlePkt, first part: the lookup or creation of the flow, and the
\* parser's clock.
HandlePktLookup(h) ==
  /\ parser.constructed
  /\ parser.handled < MaxHandled
  /\ parser.handlers[h].pc = "idle"
  /\ parser.flows_table_mutex_ = "free"
  /\ \E k \in Keys, d \in ParserTimeSteps :
       LET ts == (IF parser.last_rx_ = kUint64Max THEN ParserStart
                  ELSE parser.last_rx_) + d
           miss == parser.flows_table_[k] = 0
           id == IF miss THEN Len(parser.flows) + 1 ELSE parser.flows_table_[k]
       IN ParserStep(
            [parser EXCEPT
               !.flows = IF miss
                         THEN Append(@, Flow(6, {}, flow.tcp_estimator_ewma_alpha_,
                                             ts, parser.flow_timeout_))
                         ELSE @,
               !.flow_key = IF miss THEN Append(@, k) ELSE @,
               !.flow_mutex = IF miss THEN Append(@, 0) ELSE @,
               !.flows_table_[k] = id,
               !.last_rx_ = ts,
               !.handlers[h] = [pc |-> "lookedup", key |-> k, obj |-> id,
                                timestamp |-> ts],
               !.handled = @ + 1],
            "HandlePkt.lookup", "none", id)

\* HandlePkt, second part: the flow's mutex is taken.
HandlePktLock(h) ==
  /\ parser.constructed
  /\ parser.handlers[h].pc = "lookedup"
  /\ FlowMutexFree(parser, parser.handlers[h].obj)
  /\ ParserStep([parser EXCEPT !.flow_mutex[parser.handlers[h].obj] = h,
                                !.handlers[h].pc = "receiving"],
                "HandlePkt.lock", "none", parser.handlers[h].obj)

\* HandlePkt, third part: the receive on the flow, and the unlock.
HandlePktRx(h) ==
  /\ parser.constructed
  /\ parser.handlers[h].pc = "receiving"
  /\ LET id == parser.handlers[h].obj
         r == TCPIpRx(parser.flows[id], GenerateIpHeader(ParserIp, 6),
                      GenerateTCPHeader(ParserTcp), parser.handlers[h].timestamp)
     IN ParserStep(
          [parser EXCEPT
             !.flows[id] = r.flow,
             !.flow_mutex[id] = 0,
             !.accessed_after_removal =
                IF id \in parser.removed THEN @ \cup {id} ELSE @,
             !.handlers[h] = [pc |-> "idle", key |-> 0, obj |-> 0, timestamp |-> 0]],
          "HandlePkt", r.err, id)

\* CollectFlows, first part: the table is locked.
CollectFlowsBegin ==
  /\ parser.constructed
  /\ parser.collects < MaxCollects
  /\ parser.collector.pc = "idle"
  /\ parser.flows_table_mutex_ = "free"
  /\ LET present == {k \in Keys : parser.flows_table_[k] # 0}
     IN ParserStep(
          [parser EXCEPT
             !.flows_table_mutex_ = "collector",
             !.collector = [pc |-> "scanning", begin_keys |-> present,
                            todo |-> present, evicted |-> <<>>],
             !.collects = @ + 1],
          "CollectFlows.lock", "none", 0)

\* CollectFlows, second part: one entry of the table is examined under the
\* flow's mutex and, if the flow has expired, erased and the flow closed.
CollectFlowsScan ==
  /\ parser.constructed
  /\ parser.collector.pc = "scanning"
  /\ \E k \in parser.collector.todo :
       LET id == parser.flows_table_[k]
       IN /\ FlowMutexFree(parser, id)
          /\ IF Expired(parser.flows[id], parser.last_rx_)
             THEN ParserStep(
                    [parser EXCEPT
                       !.flows_table_ = Erase(@, k),
                       !.flows[id] = Deactivate(@),
                       !.removed = @ \cup {id},
                       !.collector.evicted = Append(@, id),
                       !.collector.todo = @ \ {k}],
                    "CollectFlows.evict", "none", id)
             ELSE ParserStep([parser EXCEPT !.collector.todo = @ \ {k}],
                             "CollectFlows.keep", "none", id)

\* CollectFlows, third part: the table is unlocked.
CollectFlowsUnlock ==
  /\ parser.constructed
  /\ parser.collector.pc = "scanning"
  /\ parser.collector.todo = {}
  /\ ParserStep([parser EXCEPT !.flows_table_mutex_ = "free",
                                !.collector.pc = "callbacks"],
                "CollectFlows.unlock", "none", 0)

\* CollectFlows, fourth part: an evicted flow is handed to callback_.
CollectFlowsCallback ==
  /\ parser.constructed
  /\ parser.collector.pc = "callbacks"
  /\ parser.collector.evicted # <<>>
  /\ ParserStep([parser EXCEPT !.delivered = Append(@, Head(parser.collector.evicted)),
                                !.collector.evicted = Tail(@)],
                "callback", "none", Head(parser.collector.evicted))

\* CollectFlows returns.
CollectFlowsReturn ==
  /\ parser.constructed
  /\ parser.collector.pc = "callbacks"
  /\ parser.collector.evicted = <<>>
  /\ ParserStep([parser EXCEPT !.collector.pc = "idle"],
                "CollectFlows", "none", 0)

NextParser ==
  \/ \E h \in Handlers : HandlePktLookup(h)
  \/ \E h \in Handlers : HandlePktLock(h)
  \/ \E h \in Handlers : HandlePktRx(h)
  \/ CollectFlowsBegin
  \/ CollectFlowsScan
  \/ CollectFlowsUnlock
  \/ CollectFlowsCallback
  \/ CollectFlowsReturn

SpecParser == InitParser /\ [][NextParser]_vars

(***************************************************************************)
(* Properties                                                              *)
(***************************************************************************)
\* The sum of the declared IP total lengths of the packets of log.
RECURSIVE SumIpLen(_)
SumIpLen(log) ==
  IF log = <<>> THEN 0 ELSE log[1].ip.len + SumIpLen(Tail(log))

LifecycleError == "Tried to modify passive flow"

ProtocolError == "Wrong proto type in PacketRx"

RetroactiveError == "Cannot get a Bps estimate in the past"

\* C1: after K successful receives GetInfo() reports K packets and a byte
\* count equal to the sum of the K declared IP total lengths, whatever the
\* tracking mask.
C1_InfoTotals ==
  lastOp.op = "GetInfo" =>
    /\ lastOp.info.size_pkts = Len(sent)
    /\ lastOp.info.size_bytes = SumIpLen(sent)

C1_Witness ==
  /\ lastOp.op = "GetInfo"
  /\ Len(sent) >= 2
  /\ sent[1].ip.len # sent[2].ip.len
  /\ flow.fields_to_track_ = {}

\* C2: a receive call that fails a precondition (flow not ACTIVE, or wrong
\* protocol) leaves the whole flow, estimator included, as it was.
C2_FailedReceiveLeavesFlow ==
  [][(rx_calls' = rx_calls + 1 /\ lastOp'.err # "none") => flow' = flow]_vars

C4_FirstLastRx ==
  /\ GetInfo(flow).first_rx = ctor.timestamp
  /\ GetInfo(flow).last_rx =
       IF sent = <<>> THEN kUint64Max ELSE sent[Len(sent)].timestamp
  /\ lastOp.op = "GetInfo" =>
       /\ lastOp.info.first_rx = ctor.timestamp
       /\ lastOp.info.last_rx =
            IF sent = <<>> THEN kUint64Max ELSE sent[Len(sent)].timestamp

C4_Witness ==
  /\ lastOp.op = "GetInfo"
  /\ Len(sent) >= 2
  /\ sent[1].timestamp # sent[Len(sent)].timestamp
  /\ sent[1].timestamp # ctor.timestamp

\* C5: once a packet was received, TimeLeft(now) is the signed value
\* last_rx + timeout - now: positive before the deadline last_rx + timeout,
\* zero at it, negative after it.
C5_TimeLeftAfterRx ==
  (lastOp.op = "TimeLeft" /\ sent # <<>>) =>
    LET deadline == sent[Len(sent)].timestamp + ctor.timeout
    IN /\ lastOp.left = deadline - lastOp.now
       /\ lastOp.now < deadline => lastOp.left > 0
       /\ lastOp.now = deadline => lastOp.left = 0
       /\ lastOp.now > deadline => lastOp.left < 0

C5_Witness ==
  /\ lastOp.op = "TimeLeft"
  /\ Len(sent) >= 2
  /\ lastOp.now = sent[Len(sent)].timestamp + ctor.timeout
  /\ lastOp.left = 0

\* C6: a flow that has received no packet is expired: TimeLeft(now) < 0 for
\* every now from the creation time to the creation time plus the timeout.
C6_NoPacketFlowExpired ==
  (/\ lastOp.op = "TimeLeft"
   /\ sent = <<>>
   /\ ctor.timestamp <= lastOp.now
   /\ lastOp.now <= ctor.timestamp + ctor.timeout) => lastOp.left < 0

ExpectedRecord(pkt) ==
  [ip |-> [timestamp |-> pkt.timestamp, id |-> pkt.ip.id,
           length |-> pkt.ip.len, ttl |-> pkt.ip.ttl],
   tcp |-> [win |-> pkt.tr.win, seq |-> pkt.tr.seq, ack |-> pkt.tr.ack,
            flags |-> pkt.tr.flags]]

\* C8: on a TCP flow tracking every field, iterating after N packets gives
\* N records in receive order, the i-th holding the i-th packet's
\* timestamp, IP length, id, TTL and TCP window, seq, ack and flags in host
\* byte order.
C8_RoundTrip ==
  (lastOp.op = "Iterate" /\ flow.fields_to_track_ = AllFields) =>
    /\ lastOp.err = "none"
    /\ Len(lastOp.records) = Len(sent)
    /\ \A i \in 1..Len(sent) : lastOp.records[i] = ExpectedRecord(sent[i])

C8_Witness ==
  /\ lastOp.op = "Iterate"
  /\ flow.fields_to_track_ = AllFields
  /\ Len(sent) >= 2
  /\ sent[1].ip # sent[2].ip
  /\ sent[1].tr # sent[2].tr
  /\ sent[1].timestamp # sent[2].timestamp

\* C10: EstimateBps(now) throws the retroactive-query error whenever now is
\* earlier than the last receive, and, thrown or not, changes nothing of the
\* flow or its estimator.
C10_EstimateBpsReadOnly ==
  [][lastOp'.op = "EstimateBps" =>
       /\ flow' = flow
       /\ (sent # <<>> /\ lastOp'.now < sent[Len(sent)].timestamp)
            => lastOp'.err = RetroactiveError]_vars

C10_Witness ==
  /\ lastOp.op = "EstimateBps"
  /\ lastOp.err = RetroactiveError
  /\ Len(sent) >= 2
  /\ lastOp.now >= ctor.timestamp

\* The mask bit and the stored member of each field kind.
BitOf ==
  [timestamp |-> "HF_TIMESTAMP", ip_len |-> "HF_IP_LEN", ip_id |-> "HF_IP_ID",
   ip_ttl |-> "HF_IP_TTL", tcp_seq |-> "HF_TCP_SEQ", tcp_ack |-> "HF_TCP_ACK",
   tcp_win |-> "HF_TCP_WIN", tcp_flags |-> "HF_TCP_FLAGS",
   payload_size |-> "HF_PAYLOAD_SIZE", icmp_type |-> "HF_ICMP_TYPE",
   icmp_code |-> "HF_ICMP_CODE"]

MemberOf ==
  [timestamp |-> "timestamp_", ip_len |-> "ip_len_", ip_id |-> "ip_id_",
   ip_ttl |-> "ip_ttl_", tcp_seq |-> "tcp_seq_", tcp_ack |-> "tcp_ack_",
   tcp_win |-> "tcp_win_", tcp_flags |-> "tcp_flags_",
   payload_size |-> "payload_size_", icmp_type |-> "icmp_type_",
   icmp_code |-> "icmp_code_"]

\* The std::logic_error messages of the accessors.
UntrackedFieldErrors ==
  {"timestamp not tracked", "ip_len not tracked", "ip_id not tracked",
   "tcp_seq not tracked", "tcp_ack not tracked", "tcp_win not tracked",
   "tcp_flags not tracked", "payload size not tracked",
   "icmp_code size not tracked", "icmp_type size not tracked"}

\* The header values of a packet of the log that a field kind records.
RecordedBy(pkt) ==
  LET ip == [timestamp |-> pkt.timestamp, ip_len |-> pkt.ip.len,
             ip_id |-> pkt.ip.id, ip_ttl |-> pkt.ip.ttl]
  IN IF pkt.op = "TCPIpRx"
     THEN [k \in {"timestamp", "ip_len", "ip_id", "ip_ttl", "tcp_seq",
                  "tcp_ack", "tcp_win", "tcp_flags"} |->
             CASE k = "tcp_seq" -> pkt.tr.seq
               [] k = "tcp_ack" -> pkt.tr.ack
               [] k = "tcp_win" -> pkt.tr.win
               [] k = "tcp_flags" -> pkt.tr.flags
               [] OTHER -> ip[k]]
     ELSE IF pkt.op = "ICMPIpRx"
     THEN [k \in {"timestamp", "ip_len", "ip_id", "ip_ttl", "icmp_type",
                  "icmp_code"} |->
             CASE k = "icmp_type" -> pkt.tr.type
               [] k = "icmp_code" -> pkt.tr.code
               [] OTHER -> ip[k]]
     ELSE ip

\* C9: for every field kind and every tracking mask, reading the field of a
\* TrackedFields record throws the untracked-field error exactly when the
\* field's bit is not in the mask, and otherwise returns the stored value
\* (the value the packet carried).
C9_UntrackedIffBitAbsent ==
  lastOp.op = "ReadField" =>
    LET kind == lastOp.kind
        tf == lastOp.tf
        pkt == sent[lastOp.index]
    IN /\ tf.fields_present_bitmap_ = ctor.fields_to_track
       /\ lastOp.err \in UntrackedFieldErrors
            <=> BitOf[kind] \notin ctor.fields_to_track
       /\ BitOf[kind] \in ctor.fields_to_track =>
            /\ lastOp.err = "none"
            /\ lastOp.val = tf[MemberOf[kind]]
            /\ kind \in DOMAIN RecordedBy(pkt) => lastOp.val = RecordedBy(pkt)[kind]

C9_Witness ==
  /\ lastOp.op = "ReadField"
  /\ lastOp.kind = "ip_ttl"
  /\ lastOp.err \in UntrackedFieldErrors
  /\ "HF_IP_ID" \in ctor.fields_to_track
  /\ "HF_IP_TTL" \notin ctor.fields_to_track
  /\ lastOp.index = 2

(***************************************************************************)
(* The decayed averages                                                    *)
(***************************************************************************)
\* a <= b for finite doubles
DLeq(a, b) == a[1] * b[2] <= b[1] * a[2]

\* Neither average is above its value before the last UpdateAverages call,
\* and a flow that never received a packet has both at 0.
AveragesDecayed ==
  /\ DLeq(flow.avg_pkts_per_period_, lastOp.avg_before.pkts)
  /\ DLeq(flow.avg_bytes_per_period_, lastOp.avg_before.bytes)
  /\ DLeq(DInt(0), flow.avg_pkts_per_period_)
  /\ DLeq(DInt(0), flow.avg_bytes_per_period_)
  /\ ~Received(flow) => /\ flow.avg_pkts_per_period_ = DInt(0)
                        /\ flow.avg_bytes_per_period_ = DInt(0)

\* C11 as stated: after every UpdateAverages call, whatever the flow had
\* received before it, neither average has increased, both are >= 0, and a
\* flow that never received a packet has both at exactly 0.
C11_AveragesNeverIncrease ==
  lastOp.op = "UpdateAverages" => AveragesDecayed

\* C11: an UpdateAverages call with no packet received since the call
\* before it (or since construction) does not increase either average and
\* leaves both >= 0; a flow that never received a packet keeps both at 0.
\* The first call after a receive folds the period's counts in and may
\* raise the averages.
C11_IdleTickNeverIncreases ==
  (lastOp.op = "UpdateAverages" /\ lastOp.period_pkts = 0) => AveragesDecayed

\* An idle tick that has decayed a positive packet average.
C11_Witness ==
  /\ lastOp.op = "UpdateAverages"
  /\ lastOp.err = "none"
  /\ lastOp.period_pkts = 0
  /\ lastOp.avg_before.pkts # DInt(0)
  /\ flow.avg_pkts_per_period_ # lastOp.avg_before.pkts
  /\ flow.avg_bytes_per_period_ # lastOp.avg_before.bytes

(***************************************************************************)
(* Payload accounting                                                      *)
(***************************************************************************)
\* The length of the transport header of a generated packet.
TransportHeaderLen(pkt) ==
  CASE pkt.op = "TCPIpRx" -> pkt.tr.off * 4
    [] pkt.op = "UDPIpRx" -> kSizeUDP
    [] pkt.op = "ICMPIpRx" -> kSizeICMP
    [] OTHER -> 0

\* The declared IP total length less the IP and transport header lengths.
DeclaredPayload(pkt) == pkt.ip.len - (pkt.ip.hl * 4 + TransportHeaderLen(pkt))

\* C16: a successful TCP, UDP or ICMP receive adds to the total payload
\* bytes, and appends to the payload-size series when it is tracked, the
\* declared IP total length minus the sum of the IP header length and the
\* transport header length.
C16_PayloadIsLenMinusHeaders ==
  [][(/\ rx_calls' = rx_calls + 1
      /\ lastOp'.err = "none"
      /\ lastOp'.op \in {"TCPIpRx", "UDPIpRx", "ICMPIpRx"})
       => /\ (flow'.total_payload_seen_ - flow.total_payload_seen_) % kUint64
               = DeclaredPayload(lastOp'.pkt)
          /\ "HF_PAYLOAD_SIZE" \in flow.fields_to_track_
               => flow'.payload_size_
                    = Append(flow.payload_size_, DeclaredPayload(lastOp'.pkt))]_vars

(***************************************************************************)
(* The rate estimator                                                      *)
(***************************************************************************)
\* A step that is a successful TCP receive, and so one UpdateEstimate call.
UpdateStep ==
  /\ rx_calls' = rx_calls + 1
  /\ lastOp'.op = "TCPIpRx"
  /\ lastOp'.err = "none"

\* The estimator has had an UpdateEstimate call before.
Updated == sent # <<>>

\* The branch of UpdateEstimate (flows.cc:16, 22) a segment with sequence
\* number seq takes on estimator e.
UpdatePath(e, seq) ==
  IF e.last_seen_seq_ = kUint32Max THEN "first"
  ELSE IF seq < e.last_seen_seq_ THEN "out_of_order"
  ELSE "accepted"

\* The end of the current second of estimator e.
SecondEnd(e) == e.curr_second_start_ + kMillion

\* C17: an Update, after the first, whose seq is less than last_seen_seq
\* leaves last_seen_seq, the bucket's bytes, the decayed estimate and the
\* bucket start as they were and sets the out-of-order flag; no Update
\* clears the flag.
C17_OutOfOrderDiscarded ==
  [][UpdateStep =>
       LET e == flow.tcp_rate_estimator_
           e2 == flow'.tcp_rate_estimator_
       IN /\ (Updated /\ lastOp'.pkt.tr.seq < e.last_seen_seq_)
               => e2 = [e EXCEPT !.out_of_order_ = TRUE]
          /\ e.out_of_order_ => e2.out_of_order_]_vars

\* C18: only the first Update call takes the initialisation path; on every
\* later call last_seen_seq holds the end of a segment, not the value that
\* marks an estimator with no segment yet.
C18_InitialisedOnce ==
  [][(UpdateStep /\ Updated)
       => UpdatePath(flow.tcp_rate_estimator_, lastOp'.pkt.tr.seq) # "first"]_vars

\* C19: the bucket start is first_rx + k * 1,000,000 with k >= 0, does not
\* decrease, and after every Update that is not discarded as out of order
\* the timestamp t of the segment has bucket start <= t <= bucket start +
\* 1,000,000.
C19_BucketsAnchored ==
  [][UpdateStep =>
       LET e == flow.tcp_rate_estimator_
           e2 == flow'.tcp_rate_estimator_
           t == lastOp'.pkt.timestamp
       IN /\ e2.curr_second_start_ >= flow'.first_rx_time_
          /\ (e2.curr_second_start_ - flow'.first_rx_time_) % kMillion = 0
          /\ e2.curr_second_start_ >= e.curr_second_start_
          /\ ~(Updated /\ lastOp'.pkt.tr.seq < e.last_seen_seq_)
               => /\ e2.curr_second_start_ <= t
                  /\ t <= SecondEnd(e2)]_vars

\* C20: when an accepted Update crosses the end of the current second, the
\* flow's last_rx is <= that end and < the new timestamp, so that the time
\* remaining in the old second does not wrap and time_delta is not 0.
C20_RateWellDefined ==
  [][(/\ UpdateStep
      /\ UpdatePath(flow.tcp_rate_estimator_, lastOp'.pkt.tr.seq) = "accepted"
      /\ lastOp'.pkt.timestamp > SecondEnd(flow.tcp_rate_estimator_))
       => /\ flow.last_rx_time_ <= SecondEnd(flow.tcp_rate_estimator_)
          /\ flow.last_rx_time_ < lastOp'.pkt.timestamp]_vars

\* C15: when an accepted Update crosses the end of the current second, the
\* new bucket starts at the old end + skipped seconds * 1,000,000, the
\* timestamp lies less than 1,000,000 after it, and the bytes credited to
\* the new bucket are rate * (timestamp - new bucket start).
C15_NewBucketBytes ==
  [][(/\ UpdateStep
      /\ UpdatePath(flow.tcp_rate_estimator_, lastOp'.pkt.tr.seq) = "accepted"
      /\ lastOp'.pkt.timestamp > SecondEnd(flow.tcp_rate_estimator_))
       => LET e == flow.tcp_rate_estimator_
              e2 == flow'.tcp_rate_estimator_
              t == lastOp'.pkt.timestamp
              skipped == (t - SecondEnd(e)) \div kMillion
              bytes_delta == lastOp'.pkt.tr.seq - e.last_seen_seq_
                               + DeclaredPayload(lastOp'.pkt)
              rate == DDiv(bytes_delta, (t - flow.last_rx_time_) % kUint64)
          IN /\ e2.curr_second_start_ = SecondEnd(e) + skipped * kMillion
             /\ t - e2.curr_second_start_ \in 0..(kMillion - 1)
             /\ e2.bytes_this_second_
                  = DMul(rate, DInt(t - e2.curr_second_start_))]_vars

(***************************************************************************)
(* The FlowParser                                                          *)
(***************************************************************************)
\* The elements of a sequence.
Range(q) == {q[i] : i \in 1..Len(q)}

\* No flow object is handed to callback_ twice, only erased flow objects are
\* handed to it, and once CollectFlows has returned every erased flow object
\* has been handed to it.
DeliveredOnce(p) ==
  /\ \A i, j \in 1..Len(p.delivered) : p.delivered[i] = p.delivered[j] => i = j
  /\ Range(p.delivered) \subseteq p.removed
  /\ p.collector.pc = "idle" => p.removed \subseteq Range(p.delivered)

\* No entry of the table holds an erased flow object.
NotReinserted(p) == \A k \in Keys : p.flows_table_[k] \notin p.removed

C13_EvictionExcludesReceive ==
  [][/\ \A id \in 1..Len(parser.flows) :
          (parser.flows[id].state_ = "ACTIVE" /\ parser'.flows[id].state_ = "CLOSED")
            => \A h \in Handlers : ~(/\ parser.handlers[h].pc = "receiving"
                                      /\ parser.handlers[h].obj = id)
     /\ \A h \in Handlers :
          (/\ parser.handlers[h].pc = "receiving"
           /\ parser'.handlers[h].pc = "idle"
           /\ parser.flows[parser.handlers[h].obj].state_ = "CLOSED")
            => /\ lastOp'.err = LifecycleError
               /\ parser'.flows = parser.flows]_vars

\* A handler's receive has failed on a flow evicted after the lookup.
C13_Witness ==
  /\ lastOp.op = "HandlePkt"
  /\ lastOp.err = LifecycleError
  /\ lastOp.obj \in parser.removed
  /\ parser.flows[lastOp.obj].pkts_seen_ > 0

BaseBps(f) ==
  IF f.tcp_rate_estimator_.curr_second_start_ = f.first_rx_time_
  THEN f.tcp_rate_estimator_.bytes_this_second_
  ELSE f.tcp_rate_estimator_.curr_bytes_per_second_

\* C21: EstimateBps(now), for now >= last_rx, returns the base value
\* multiplied by (1 - alpha) once per whole second between the start of
\* the current bucket and now: floor((now - bucket start) / 1,000,000)
\* times.
C21_DecayedPerSecondSinceStart ==
  (lastOp.op = "EstimateBps" /\ lastOp.err = "none")
    => lastOp.bps
         = DecayOnly(BaseBps(flow),
                     (lastOp.now - flow.tcp_rate_estimator_.curr_second_start_)
                        \div kMillion,
                     flow.tcp_estimator_ewma_alpha_)
====
